---- MODULE Spec2Model ----
(***************************************************************************)
(* A model of the Redfish Test Framework driver (src/test_framework.py):   *)
(* discovery of the run / suite / case tree, the configuration cascade,    *)
(* variable substitution, registration of one unittest method per          *)
(* configured case, execution by the unittest runner, and aggregation of   *)
(* the results.                                                            *)
(*                                                                         *)
(* Representation.  A Python str is a sequence of lexemes: single          *)
(* characters for directory names ("a", "-", "_"), and whole words for     *)
(* configuration text ("$" and " " are always lexemes of their own, so     *)
(* startswith("$"), arg[1:] and str.split() are computed, not assumed).    *)
(* A path is a sequence of names below the run's root directory.  An       *)
(* optional value is None (<<>>) or Some(v) (<<v>>).  A dict is a function *)
(* whose DOMAIN is its key set.                                            *)
(***************************************************************************)
EXTENDS Integers, Sequences, FiniteSets, TLC

VARIABLES
    fs,            \* the directory tree under framework_dir (input, not written)
    cmd_args,      \* the argparse Namespace (input)
    pc,            \* position of main(): "walk", "register", "run", "write", "done", "exit"
    walk,          \* the entries walk_depth(framework_dir, 2) has still to yield
    framework,     \* the TestFramework instance, with its suites and their cases
    todo,          \* the (suite, case) positions the registration loop has still to visit
    registry,      \* the test_* attributes of class RedfishTestCase: name -> (suite, case)
    registered,    \* history: the calls of add_test_as_unittest, in order
    pending,       \* the unit names unittest.makeSuite loaded and the runner has still to run
    report,        \* the runner's TestResult: one entry per unit run, in order, with
                   \* the behaviour of the system the unit met and the time it began
    results,       \* the Results instance: results_pass / results_fail "TestCases" lists
    cwd,           \* the process working directory
    now,           \* the clock read by datetime.now()
    output         \* what write_results emitted

vars == <<fs, cmd_args, pc, walk, framework, todo, registry, registered,
          pending, report, results, cwd, now, output>>

-----------------------------------------------------------------------------
(* Optional values *)

None == << >>

Some(v) == <<v>>

-----------------------------------------------------------------------------
(* Program constants *)

FrameworkConfigFilename == "framework_conf.json"

SuiteConfigFilename == "suite_conf.json"

CaseConfigFilename == "test_conf.json"

sensitive_args == {"password", "token"}

Mask == <<"********">>

WellKnownVars == <<"target_system", "username", "password", "token", "https", "interpreter">>

Root == << >>

-----------------------------------------------------------------------------
(* Bounds of the model *)

MaxSuites == 2

MaxCases == 2

MaxArgs == 2

MaxDepth == 3

-----------------------------------------------------------------------------
(* Python built-ins used by the program *)

startswith(str, prefix) == Len(str) > 0 /\ str[1] = prefix

\* str.split(): the maximal runs of non-whitespace lexemes, in order.
RECURSIVE split_from(_, _, _)
split_from(str, cur, out) ==
    IF str = << >>
    THEN IF cur = << >> THEN out ELSE Append(out, cur)
    ELSE IF Head(str) = " "
         THEN split_from(Tail(str), << >>, IF cur = << >> THEN out ELSE Append(out, cur))
         ELSE split_from(Tail(str), Append(cur, Head(str)), out)

split(str) == split_from(str, << >>, << >>)

\* `var in d` and `d[var]` for a str var and a dict keyed by one-lexeme names.
in_dict(var, d) == Len(var) = 1 /\ var[1] \in DOMAIN d

lookup(d, var) == d[var[1]]

EmptyDict == [k \in {} |-> << >>]

\* os.path.join(path, subdir)
join(path, subdir) == Append(path, subdir)

RECURSIVE concat(_)
concat(seqs) == IF seqs = << >> THEN << >> ELSE Head(seqs) \o concat(Tail(seqs))

-----------------------------------------------------------------------------
(* Identifier characters, for re.sub('\W|^(?=\d)', '_', name) and for the   *)
(* ordering of method names                                                 *)

Digits == {"0", "1", "2"}

Letters == {"a", "b", "c", "e", "s", "t"}

IsWordChar(c) == c \in Letters \cup Digits \cup {"_"}

\* ord(c) for the characters the model's names are made of
ord(c) ==
    CASE c = " " -> 32 [] c = "-" -> 45 [] c = "." -> 46
      [] c = "0" -> 48 [] c = "1" -> 49 [] c = "2" -> 50
      [] c = "_" -> 95
      [] c = "a" -> 97 [] c = "b" -> 98 [] c = "c" -> 99 [] c = "e" -> 101
      [] c = "s" -> 115 [] c = "t" -> 116

\* Python's str ordering: lexicographic by code point, a proper prefix first.
RECURSIVE str_less(_, _)
str_less(a, b) ==
    IF b = << >> THEN FALSE
    ELSE IF a = << >> THEN TRUE
    ELSE IF Head(a) = Head(b) THEN str_less(Tail(a), Tail(b))
    ELSE ord(Head(a)) < ord(Head(b))

RECURSIVE sorted(_)
sorted(names) ==
    IF names = {} THEN << >>
    ELSE LET first == CHOOSE x \in names : \A y \in names : x = y \/ str_less(x, y)
         IN  <<first>> \o sorted(names \ {first})

-----------------------------------------------------------------------------
(* The directory tree: a node is [name, files, conf, dirs, link]; conf is    *)
(* what reading and validating the node's configuration file gives, link     *)
(* whether the name is a symbolic link to the directory.                     *)

RECURSIVE node_at(_, _)
node_at(node, path) ==
    IF path = << >> THEN node
    ELSE LET i == CHOOSE k \in DOMAIN node.dirs : node.dirs[k].name = Head(path)
         IN  node_at(node.dirs[i], Tail(path))

dir_names(node) == [i \in DOMAIN node.dirs |-> node.dirs[i].name]

\* walk_depth: os.walk top-down, the children of an entry at max_depth pruned.
\* os.walk (followlinks=False) lists a symbolic link to a directory in `dirs`
\* and does not descend into it.
RECURSIVE walk_depth_from(_, _, _, _)
walk_depth_from(node, path, depth, max_depth) ==
    <<[depth |-> depth, path |-> path, dirs |-> dir_names(node), files |-> node.files]>>
    \o (IF depth >= max_depth THEN << >>
        ELSE LET into == SelectSeq(node.dirs, LAMBDA d : ~d.link)
             IN  concat([i \in DOMAIN into |->
                            walk_depth_from(into[i], join(path, into[i].name),
                                            depth + 1, max_depth)]))

walk_depth(directory, max_depth) == walk_depth_from(directory, Root, 0, max_depth)

get_config_file(depth, files) ==
    LET config_files == <<FrameworkConfigFilename, SuiteConfigFilename, CaseConfigFilename>>
    IN  IF config_files[depth + 1] \in files THEN Some(config_files[depth + 1]) ELSE None

\* read_config_file: [ok |-> TRUE, data |-> dict], or [ok |-> FALSE] where the
\* code logs the error and calls sys.exit(1)
read_config_file(path, json_file) == node_at(fs, path).conf

-----------------------------------------------------------------------------
(* class TestFramework *)

\* dict update d[k] = v, and d.update(e)
put(d, k, v) == (k :> v) @@ d

update(d, e) == e @@ d

NewTestFramework(path, output_subdir) ==
    [ path          |-> path,
      config_file   |-> None,
      config_dict   |-> None,
      suite_list    |-> << >>,
      config_vars   |-> EmptyDict,
      output_subdir |-> output_subdir ]

Framework_set_config_data(fw, config_dict) ==
    LET known  == {WellKnownVars[i] : i \in DOMAIN WellKnownVars} \cap DOMAIN config_dict
        vars1  == put(fw.config_vars, "output_subdir", fw.output_subdir)
        vars2  == update(vars1, [v \in known |-> config_dict[v]])
        vars3  == IF "custom_variables" \in DOMAIN config_dict
                  THEN update(vars2, config_dict["custom_variables"])
                  ELSE vars2
    IN  [fw EXCEPT !.config_dict = Some(config_dict), !.config_vars = vars3]

\* override_one giving way to a value the configuration file already set
override_one_ConfigWins(config_vars, key, arg) ==
    IF arg # None /\ key \notin DOMAIN config_vars THEN put(config_vars, key, arg[1])
    ELSE config_vars

\* one `if args.X is not None: self.config_vars[key] = args.X`
override_one(config_vars, key, arg) ==
    IF arg # None THEN put(config_vars, key, arg[1]) ELSE config_vars

Framework_override_config_data(fw, args) ==
    LET v1 == override_one(fw.config_vars, "target_system", args.rhost)
        v2 == override_one(v1, "username", args.user)
        v3 == override_one(v2, "password", args.password)
        v4 == override_one(v3, "token", args.token)
        v5 == override_one(v4, "https", args.secure)
        v6 == override_one(v5, "output_subdir", args.directory)
        v7 == override_one(v6, "interpreter", args.interpreter)
    IN  [fw EXCEPT !.config_vars = v7]

\* Framework_substitute_args with an unknown variable expanding to the empty
\* string instead of being left as written
Framework_substitute_args_Blank(config_vars, command_args) ==
    IF command_args = None THEN None
    ELSE Some([index \in DOMAIN command_args[1] |->
                 LET arg == command_args[1][index]
                 IN  IF startswith(arg, "$")
                     THEN IF in_dict(Tail(arg), config_vars)
                          THEN lookup(config_vars, Tail(arg))
                          ELSE << >>
                     ELSE arg])

\* the first loop of TestFramework.substitute_config_variables
Framework_substitute_args(config_vars, command_args) ==
    IF command_args = None THEN None
    ELSE Some([index \in DOMAIN command_args[1] |->
                 LET arg == command_args[1][index]
                 IN  IF startswith(arg, "$") /\ in_dict(Tail(arg), config_vars)
                     THEN lookup(config_vars, Tail(arg))
                     ELSE arg])

\* Framework_substitute_printable without the sensitive_args test
Framework_substitute_printable_NoMask(config_vars, command_args_printable) ==
    IF command_args_printable = None THEN None
    ELSE Some([index \in DOMAIN command_args_printable[1] |->
                 LET arg == command_args_printable[1][index]
                 IN  IF startswith(arg, "$") /\ in_dict(Tail(arg), config_vars)
                     THEN lookup(config_vars, Tail(arg))
                     ELSE arg])

\* the second loop of TestFramework.substitute_config_variables
Framework_substitute_printable(config_vars, command_args_printable) ==
    IF command_args_printable = None THEN None
    ELSE Some([index \in DOMAIN command_args_printable[1] |->
                 LET arg == command_args_printable[1][index]
                 IN  IF startswith(arg, "$") /\ in_dict(Tail(arg), config_vars)
                     THEN IF Tail(arg)[1] \notin sensitive_args
                          THEN lookup(config_vars, Tail(arg))
                          ELSE Mask
                     ELSE arg])

Framework_substitute_config_variables(fw, case) ==
    [case EXCEPT
       !.command_args = Framework_substitute_args(fw.config_vars, case.command_args),
       !.command_args_printable =
           Framework_substitute_printable(fw.config_vars, case.command_args_printable)]

-----------------------------------------------------------------------------
(* class TestSuite *)

NewTestSuite(path, subdir) ==
    [ path        |-> join(path, subdir),
      name        |-> subdir,
      config_file |-> None,
      config_dict |-> None,
      test_list   |-> << >>,
      custom_vars |-> EmptyDict ]

Suite_set_config_data(suite, config_dict) ==
    [suite EXCEPT
       !.config_dict = Some(config_dict),
       !.custom_vars = IF "custom_variables" \in DOMAIN config_dict
                       THEN update(suite.custom_vars, config_dict["custom_variables"])
                       ELSE suite.custom_vars]

\* the first loop of TestSuite.substitute_config_variables
Suite_substitute_args(custom_vars, command_args) ==
    IF command_args = None THEN None
    ELSE Some([index \in DOMAIN command_args[1] |->
                 LET arg == command_args[1][index]
                 IN  IF startswith(arg, "$") /\ in_dict(Tail(arg), custom_vars)
                     THEN lookup(custom_vars, Tail(arg))
                     ELSE arg])

\* Suite_substitute_printable leaving the printable list as it was
Suite_substitute_printable_Unchanged(custom_vars, command_args_printable) ==
    command_args_printable

\* the second loop of TestSuite.substitute_config_variables
Suite_substitute_printable(custom_vars, command_args_printable) ==
    IF command_args_printable = None THEN None
    ELSE Some([index \in DOMAIN command_args_printable[1] |->
                 LET arg == command_args_printable[1][index]
                 IN  IF startswith(arg, "$") /\ in_dict(Tail(arg), custom_vars)
                     THEN IF Tail(arg)[1] \notin sensitive_args
                          THEN lookup(custom_vars, Tail(arg))
                          ELSE Mask
                     ELSE arg])

Suite_substitute_config_variables(suite, case) ==
    [case EXCEPT
       !.command_args = Suite_substitute_args(suite.custom_vars, case.command_args),
       !.command_args_printable =
           Suite_substitute_printable(suite.custom_vars, case.command_args_printable)]

\* get_suite / get_test_case: the dicts are keyed by directory name
index_of(list, name) == CHOOSE i \in DOMAIN list : list[i].name = name

-----------------------------------------------------------------------------
(* class TestCase *)

\* NewTestCase with return_code initially 0
NewTestCase_ZeroReturnCode(path, subdir, output_subdir) ==
    [ path                   |-> join(path, subdir),
      name                   |-> subdir,
      output_dir             |-> join(join(path, subdir), output_subdir),
      config_file            |-> None,
      config_dict            |-> None,
      command_args           |-> None,
      command_args_printable |-> None,
      return_code            |-> 0,
      results                |-> None,
      timestamp              |-> None,
      wait_seconds_after     |-> 0 ]

NewTestCase(path, subdir, output_subdir) ==
    [ path                   |-> join(path, subdir),
      name                   |-> subdir,
      output_dir             |-> join(join(path, subdir), output_subdir),
      config_file            |-> None,
      config_dict            |-> None,
      command_args           |-> None,
      command_args_printable |-> None,
      return_code            |-> 1,
      results                |-> None,
      timestamp              |-> None,
      wait_seconds_after     |-> 0 ]

Case_set_config_data(case, config_dict) ==
    LET test_case == config_dict["test"]
        c1 == [case EXCEPT !.config_dict = Some(config_dict)]
        c2 == IF "command" \in DOMAIN test_case
              THEN [c1 EXCEPT !.command_args = Some(split(test_case["command"])),
                              !.command_args_printable = Some(split(test_case["command"]))]
              ELSE c1
    IN  IF "wait_seconds_after" \in DOMAIN test_case
        THEN [c2 EXCEPT !.wait_seconds_after = test_case["wait_seconds_after"]]
        ELSE c2

\* Case_run going on to the child when os.mkdir(self.output_dir) fails
Case_run_IgnoreMkdir(case, dir, env) ==
    LET stay(c, d, inv, exc, secs) ==
            [case |-> c, cwd |-> d, invoked |-> inv, raised |-> exc, slept |-> secs]
        stamped == [case EXCEPT !.timestamp = Some(now)]
    IN  IF ~env.chdir THEN stay(case, dir, FALSE, FALSE, 0)
        ELSE IF ~env.open THEN stay(case, case.path, FALSE, FALSE, 0)
        ELSE IF case.command_args = None THEN stay(case, case.path, FALSE, FALSE, 0)
        ELSE IF env.spawn = "OSError" THEN stay(stamped, case.path, FALSE, FALSE, 0)
        ELSE stay([stamped EXCEPT !.return_code = env.rc, !.results = env.results],
                  case.path, TRUE, FALSE, 0)

\* Case_run letting the OSError of subprocess.call leave run()
Case_run_SpawnRaises(case, dir, env) ==
    LET stay(c, d, inv, exc, secs) ==
            [case |-> c, cwd |-> d, invoked |-> inv, raised |-> exc, slept |-> secs]
        wait == IF case.wait_seconds_after > 0 THEN case.wait_seconds_after ELSE 0
        stamped == [case EXCEPT !.timestamp = Some(now)]
    IN  IF ~env.chdir THEN stay(case, dir, FALSE, FALSE, 0)
        ELSE IF ~env.mkdir THEN stay(case, case.path, FALSE, FALSE, 0)
        ELSE IF ~env.open THEN stay(case, case.path, FALSE, FALSE, 0)
        ELSE IF case.command_args = None THEN stay(case, case.path, FALSE, FALSE, wait)
        ELSE IF env.spawn = "OSError" THEN stay(stamped, case.path, FALSE, TRUE, 0)
        ELSE stay([stamped EXCEPT !.return_code = env.rc, !.results = env.results],
                  case.path, TRUE, FALSE, wait)

\*   env.chdir, env.mkdir, env.open : whether os.chdir / os.mkdir / open succeed
\*   env.spawn   : "ok" (the child ran and exited) or "OSError" (it could not be started)
\*   env.rc      : the child's exit code
\*   env.results : None (no results.json, or not JSON), or Some(dict)
\* Gives the case afterwards, the working directory, whether the child was invoked,
\* whether an exception left run(), and the seconds slept.
\* subprocess.call of an empty argument list raises IndexError, which run() does
\* not catch.
Case_run(case, dir, env) ==
    LET stay(c, d, inv, exc, secs) ==
            [case |-> c, cwd |-> d, invoked |-> inv, raised |-> exc, slept |-> secs]
        wait == IF case.wait_seconds_after > 0 THEN case.wait_seconds_after ELSE 0
    IN  IF ~env.chdir THEN stay(case, dir, FALSE, FALSE, 0)
        ELSE IF ~env.mkdir THEN stay(case, case.path, FALSE, FALSE, 0)
        ELSE IF ~env.open THEN stay(case, case.path, FALSE, FALSE, 0)
        ELSE IF case.config_dict # None /\ "test" \in DOMAIN case.config_dict[1]
             THEN IF case.command_args # None
                  THEN LET stamped == [case EXCEPT !.timestamp = Some(now)]
                       IN  IF case.command_args[1] = << >>
                           THEN stay(stamped, case.path, FALSE, TRUE, 0)
                           ELSE IF env.spawn = "OSError"
                           THEN stay(stamped, case.path, FALSE, FALSE, wait)
                           ELSE stay([stamped EXCEPT !.return_code = env.rc,
                                                     !.results = env.results],
                                     case.path, TRUE, FALSE, wait)
                  ELSE stay(case, case.path, FALSE, FALSE, wait)
             ELSE stay(case, case.path, FALSE, FALSE, wait)

-----------------------------------------------------------------------------
(* class Results and create_test_results *)

NewResults == [results_pass |-> << >>, results_fail |-> << >>]

add_test_results_pass(res, results_dict) ==
    [res EXCEPT !.results_pass = Append(res.results_pass, results_dict)]

add_test_results_fail(res, results_dict) ==
    [res EXCEPT !.results_fail = Append(res.results_fail, results_dict)]

\* "{:%Y-%m-%dT%H:%M:%SZ}".format(None) raises TypeError
create_test_results_raises(timestamp) == timestamp = None

\* create_test_results with the two counters exchanged
create_test_results_Swapped(suite_name, test_name, timestamp, command_args_printable, rc) ==
    [ ToolName        |-> [suite |-> suite_name, case |-> test_name],
      Timestamp       |-> timestamp[1],
      CommandLineArgs |-> command_args_printable,
      TestResults     |-> (test_name :> [fail |-> IF rc = 0 THEN 1 ELSE 0,
                                         pass |-> IF rc = 0 THEN 0 ELSE 1]) ]

create_test_results(suite_name, test_name, timestamp, command_args_printable, rc) ==
    LET passed == IF rc = 0 THEN 1 ELSE 0
        failed == IF rc = 0 THEN 0 ELSE 1
    IN  [ ToolName        |-> [suite |-> suite_name, case |-> test_name],
          Timestamp       |-> timestamp[1],
          CommandLineArgs |-> command_args_printable,
          TestResults     |-> (test_name :> [fail |-> failed, pass |-> passed]) ]

-----------------------------------------------------------------------------
(* class RedfishTestCase and add_test_as_unittest *)

\* re.sub('\W|^(?=\d)', '_', name)
re_sub_identifier(name) ==
    (IF name # << >> /\ name[1] \in Digits THEN <<"_">> ELSE << >>)
    \o [i \in DOMAIN name |-> IF IsWordChar(name[i]) THEN name[i] ELSE "_"]

test_func_name(suite_name, case_name) ==
    re_sub_identifier(<<"t", "e", "s", "t", "_">> \o suite_name \o <<"_">> \o case_name)

\* setattr(RedfishTestCase, test_func_name, test_func)
set_attr(reg, name, unit) == put(reg, name, unit)

add_test_as_unittest(reg, suite, case, unit) ==
    set_attr(reg, test_func_name(suite.name, case.name), unit)

\* RedfishTestCase.run_test: the case afterwards, the Results, the working
\* directory, and how the unit ended for the runner ("ok", "failure" for the
\* failed assertEqual, "error" for an exception), and which collection (if any)
\* received the unit's record.
run_test(fw, suite, case, res, dir, env) ==
    LET ran  == Case_run(case, dir, env)
        c    == ran.case
        rc   == c.return_code
        back == IF env.chdir_back THEN fw.path ELSE ran.cwd
        end(r, d, how, where) ==
            [case |-> c, results |-> r, cwd |-> d, outcome |-> how, recorded |-> where,
             invoked |-> ran.invoked, slept |-> ran.slept]
        verdict == IF rc = 0 THEN "ok" ELSE "failure"
        synth == create_test_results(suite.name, c.name, c.timestamp,
                                     c.command_args_printable, rc)
    IN  IF ran.raised THEN end(res, ran.cwd, "error", "none")
        ELSE IF rc = 0
        THEN IF c.results # None
             THEN end(add_test_results_pass(res, c.results[1]), back, verdict, "pass")
             ELSE IF create_test_results_raises(c.timestamp)
                  THEN end(res, ran.cwd, "error", "none")
                  ELSE end(add_test_results_pass(res, synth), back, verdict, "pass")
        ELSE IF c.results # None
             THEN end(add_test_results_fail(res, c.results[1]), back, verdict, "fail")
             ELSE IF create_test_results_raises(c.timestamp)
                  THEN end(res, ran.cwd, "error", "none")
                  ELSE end(add_test_results_fail(res, synth), back, verdict, "fail")

-----------------------------------------------------------------------------
(* Inputs: directory trees, configuration files, command lines, and the     *)
(* behaviours of the operating system and of the child processes            *)

\* the sequences of at most n distinct elements of S
Arrangements(S, n) ==
    { q \in UNION { [1..k -> S] : k \in 0..n } : \A i, j \in DOMAIN q : i # j => q[i] # q[j] }

\* a directory's configuration file: absent, present and valid, or present and
\* rejected by json.load / jsonschema.validate
Absent == [present |-> FALSE, conf |-> [ok |-> FALSE]]

Valid(dict) == [present |-> TRUE, conf |-> [ok |-> TRUE, data |-> dict]]

Invalid == [present |-> TRUE, conf |-> [ok |-> FALSE]]

Dir(name, filename, file, dirs) ==
    [ name  |-> name,
      files |-> IF file.present THEN {filename} ELSE {},
      conf  |-> file.conf,
      dirs  |-> dirs,
      link  |-> FALSE ]

\* a symbolic link to a directory
Link(dir) == [dir EXCEPT !.link = TRUE]

RECURSIVE SumLen(_)
SumLen(seqs) == IF seqs = << >> THEN 0 ELSE Len(Head(seqs)) + SumLen(Tail(seqs))

\* the case directories of one suite
CaseDirs(case_names, case_files, n) ==
    UNION { { [i \in DOMAIN names |-> Dir(names[i], CaseConfigFilename, files[i], << >>)]
              : files \in [DOMAIN names -> case_files] }
            : names \in Arrangements(case_names, n) }

\* the trees with at most max_suites suites and at most max_cases cases in all
Trees(suite_names, case_names, root_files, suite_files, case_files, max_suites, max_cases) ==
    UNION { UNION { { Dir(<< >>, FrameworkConfigFilename, root_file,
                          [i \in DOMAIN names |->
                              Dir(names[i], SuiteConfigFilename, files[i], cases[i])])
                      : root_file \in root_files }
                    : <<files, cases>> \in
                        { fc \in [DOMAIN names -> suite_files]
                                 \X [DOMAIN names -> CaseDirs(case_names, case_files, max_cases)]
                          : SumLen(fc[2]) <= max_cases } }
            : names \in Arrangements(suite_names, max_suites) }

NoArgs ==
    [ rhost |-> None, user |-> None, password |-> None, token |-> None,
      secure |-> None, directory |-> None, interpreter |-> None ]

OutputSubdir == <<"output-T0">>

ExitCodes == {0, 2}

JsonResults ==
    { [ToolName |-> <<"tool">>, TestResults |-> [fail |-> 0, pass |-> 1]],
      [ToolName |-> <<"tool">>, TestResults |-> [fail |-> 1, pass |-> 0]] }

Normal ==
    [ chdir |-> TRUE, mkdir |-> TRUE, open |-> TRUE, spawn |-> "ok", rc |-> 0,
      results |-> None, chdir_back |-> TRUE ]

Envs ==
    { [Normal EXCEPT !.rc = r, !.results = j]
        : r \in ExitCodes, j \in {None} \cup {Some(d) : d \in JsonResults} }
    \cup { [Normal EXCEPT !.chdir = FALSE], [Normal EXCEPT !.mkdir = FALSE],
           [Normal EXCEPT !.open = FALSE], [Normal EXCEPT !.spawn = "OSError"] }
    \cup { [Normal EXCEPT !.rc = r, !.chdir_back = FALSE] : r \in ExitCodes }

WriteNormal == [chdir |-> TRUE, mkdir |-> TRUE, write_pass |-> TRUE, write_fail |-> TRUE]

WriteEnvs ==
    { WriteNormal, [WriteNormal EXCEPT !.chdir = FALSE], [WriteNormal EXCEPT !.mkdir = FALSE],
      [WriteNormal EXCEPT !.write_pass = FALSE], [WriteNormal EXCEPT !.write_fail = FALSE] }

-----------------------------------------------------------------------------
(* main() *)

\* the walker yields the root: TestFramework(path), add_test_suites
AddTestSuites ==
    /\ pc = "walk" /\ walk # << >> /\ Head(walk).depth = 0
    /\ LET e           == Head(walk)
           config_file == get_config_file(e.depth, e.files)
           conf        == read_config_file(e.path, config_file)
           fw0         == NewTestFramework(e.path, OutputSubdir)
           fw1         == IF config_file # None
                          THEN Framework_set_config_data(
                                   [fw0 EXCEPT !.config_file = config_file], conf.data)
                          ELSE fw0
           suites      == [i \in DOMAIN e.dirs |-> NewTestSuite(e.path, e.dirs[i])]
       IN  IF config_file # None /\ ~conf.ok
           THEN /\ pc' = "exit"
                /\ UNCHANGED <<walk, framework>>
           ELSE /\ framework' = [fw1 EXCEPT !.suite_list = fw1.suite_list \o suites]
                /\ walk' = Tail(walk)
                /\ pc' = pc
    /\ UNCHANGED <<fs, cmd_args, todo, registry, registered, pending, report, results,
                   cwd, now, output>>

\* the walker yields a suite directory: add_test_cases_to_suite
AddTestCasesToSuite ==
    /\ pc = "walk" /\ walk # << >> /\ Head(walk).depth = 1
    /\ LET e           == Head(walk)
           si          == index_of(framework.suite_list, e.path[Len(e.path)])
           suite       == framework.suite_list[si]
           config_file == get_config_file(e.depth, e.files)
           conf        == read_config_file(e.path, config_file)
           suite1      == IF config_file # None
                          THEN Suite_set_config_data(
                                   [suite EXCEPT !.config_file = config_file], conf.data)
                          ELSE suite
           cases       == [i \in DOMAIN e.dirs |->
                              NewTestCase(e.path, e.dirs[i], framework.output_subdir)]
       IN  IF config_file # None /\ ~conf.ok
           THEN /\ pc' = "exit"
                /\ UNCHANGED <<walk, framework>>
           ELSE /\ framework' = [framework EXCEPT !.suite_list[si] =
                                    [suite1 EXCEPT !.test_list = suite1.test_list \o cases]]
                /\ walk' = Tail(walk)
                /\ pc' = pc
    /\ UNCHANGED <<fs, cmd_args, todo, registry, registered, pending, report, results,
                   cwd, now, output>>

\* the walker yields a case directory: add_details_to_test_case
AddDetailsToTestCase ==
    /\ pc = "walk" /\ walk # << >> /\ Head(walk).depth = 2
    /\ LET e           == Head(walk)
           si          == index_of(framework.suite_list, e.path[Len(e.path) - 1])
           suite       == framework.suite_list[si]
           ci          == index_of(suite.test_list, e.path[Len(e.path)])
           test_case   == suite.test_list[ci]
           config_file == get_config_file(e.depth, e.files)
           conf        == read_config_file(e.path, config_file)
       IN  IF config_file # None /\ ~conf.ok
           THEN /\ pc' = "exit"
                /\ UNCHANGED <<walk, framework>>
           ELSE /\ framework' =
                      IF config_file # None
                      THEN [framework EXCEPT !.suite_list[si].test_list[ci] =
                               Case_set_config_data(
                                   [test_case EXCEPT !.config_file = config_file], conf.data)]
                      ELSE framework
                /\ walk' = Tail(walk)
                /\ pc' = pc
    /\ UNCHANGED <<fs, cmd_args, todo, registry, registered, pending, report, results,
                   cwd, now, output>>

\* the positions `for suite in suites: for case in cases` visits, in order
loop_positions(suite_list) ==
    concat([si \in DOMAIN suite_list |->
               [ci \in DOMAIN suite_list[si].test_list |-> <<si, ci>>]])

\* the walk is over: override_config_data, Results(...), and the loop begins
OverrideConfigData ==
    /\ pc = "walk" /\ walk = << >>
    /\ framework' = Framework_override_config_data(framework, cmd_args)
    /\ results' = NewResults
    /\ todo' = loop_positions(framework.suite_list)
    /\ pc' = "register"
    /\ UNCHANGED <<fs, cmd_args, walk, registry, registered, pending, report, cwd, now, output>>

\* the body of the loop for one case: substitution and registration
register_case(fw, si, ci) ==
    LET suite == fw.suite_list[si]
        case  == suite.test_list[ci]
    IN  Framework_substitute_config_variables(fw, Suite_substitute_config_variables(suite, case))

\* RegisterCase without the `if case.get_config_file() is not None` test
RegisterCase_NoConfigTest ==
    /\ pc = "register" /\ todo # << >>
    /\ LET si    == Head(todo)[1]
           ci    == Head(todo)[2]
           suite == framework.suite_list[si]
           case  == suite.test_list[ci]
           unit  == [suite |-> si, case |-> ci]
       IN  /\ framework' = [framework EXCEPT !.suite_list[si].test_list[ci] =
                               register_case(framework, si, ci)]
           /\ registry' = add_test_as_unittest(registry, suite, case, unit)
           /\ registered' = Append(registered,
                              [name |-> test_func_name(suite.name, case.name),
                               suite |-> si, case |-> ci])
    /\ todo' = Tail(todo)
    /\ UNCHANGED <<fs, cmd_args, pc, walk, pending, report, results, cwd, now, output>>

RegisterCase ==
    /\ pc = "register" /\ todo # << >>
    /\ LET si    == Head(todo)[1]
           ci    == Head(todo)[2]
           suite == framework.suite_list[si]
           case  == suite.test_list[ci]
           unit  == [suite |-> si, case |-> ci]
       IN  IF case.config_file # None
           THEN /\ framework' = [framework EXCEPT !.suite_list[si].test_list[ci] =
                                    register_case(framework, si, ci)]
                /\ registry' = add_test_as_unittest(registry, suite, case, unit)
                /\ registered' = Append(registered,
                                   [name |-> test_func_name(suite.name, case.name),
                                    suite |-> si, case |-> ci])
           ELSE UNCHANGED <<framework, registry, registered>>
    /\ todo' = Tail(todo)
    /\ UNCHANGED <<fs, cmd_args, pc, walk, pending, report, results, cwd, now, output>>

\* unittest.makeSuite(RedfishTestCase): the loader takes the class's test_*
\* attributes in sorted order of their names
makeSuite(reg) == sorted(DOMAIN reg)

MakeSuite ==
    /\ pc = "register" /\ todo = << >>
    /\ pending' = makeSuite(registry)
    /\ pc' = "run"
    /\ UNCHANGED <<fs, cmd_args, walk, framework, todo, registry, registered, report,
                   results, cwd, now, output>>

\* the runner runs the next unit: test_func -> run_test
RunUnit ==
    /\ pc = "run" /\ pending # << >>
    /\ \E env \in Envs :
         LET name  == Head(pending)
             unit  == registry[name]
             suite == framework.suite_list[unit.suite]
             case  == suite.test_list[unit.case]
             r     == run_test(framework, suite, case, results, cwd, env)
         IN  /\ framework' = [framework EXCEPT
                                 !.suite_list[unit.suite].test_list[unit.case] = r.case]
             /\ results' = r.results
             /\ cwd' = r.cwd
             /\ report' = Append(report,
                             [name |-> name, suite |-> unit.suite, case |-> unit.case,
                              outcome |-> r.outcome, recorded |-> r.recorded,
                              invoked |-> r.invoked, env |-> env, at |-> now])
             /\ now' = now + 1 + r.slept
    /\ pending' = Tail(pending)
    /\ UNCHANGED <<fs, cmd_args, pc, walk, todo, registry, registered, output>>

\* write_results losing a document whose file cannot be written
write_results_DropOnError(res, env) ==
    [ dir  |-> IF env.mkdir THEN "reports" ELSE "cwd",
      pass |-> IF env.write_pass THEN [to |-> "file", doc |-> res.results_pass]
               ELSE [to |-> "nowhere", doc |-> << >>],
      fail |-> IF env.write_fail THEN [to |-> "file", doc |-> res.results_fail]
               ELSE [to |-> "nowhere", doc |-> << >>] ]

\* Results.write_results: where the documents go (the reports directory, or the
\* working directory if it cannot be created; the file, or standard output if
\* it cannot be written) and the "TestCases" list each one carries
write_results(res, env) ==
    [ dir  |-> IF env.mkdir THEN "reports" ELSE "cwd",
      pass |-> [to |-> IF env.write_pass THEN "file" ELSE "stdout", doc |-> res.results_pass],
      fail |-> [to |-> IF env.write_fail THEN "file" ELSE "stdout", doc |-> res.results_fail] ]

\* the runner is done: chdir to the root, write_results
WriteResults ==
    /\ pc = "run" /\ pending = << >>
    /\ \E env \in WriteEnvs :
         /\ cwd' = IF env.chdir THEN framework.path ELSE cwd
         /\ output' = Some(write_results(results, env))
    /\ pc' = "done"
    /\ UNCHANGED <<fs, cmd_args, walk, framework, todo, registry, registered, pending,
                   report, results, now>>

Next ==
    \/ AddTestSuites
    \/ AddTestCasesToSuite
    \/ AddDetailsToTestCase
    \/ OverrideConfigData
    \/ RegisterCase
    \/ MakeSuite
    \/ RunUnit
    \/ WriteResults

-----------------------------------------------------------------------------
(* The runs checked *)

SuiteNames == { <<"a", "-", "b">>, <<"a", "_", "b">>, <<"a">> }

CaseNames == { <<"c">>, <<"b", "_", "c">> }

RunConf == [username |-> <<"u">>, password |-> <<"pw">>]

CaseConf == [test |-> [command |-> <<"run", " ", "$", "x">>, wait_seconds_after |-> 1]]

InitWith(trees, args) ==
    /\ fs \in trees
    /\ cmd_args \in args
    /\ pc = "walk"
    /\ walk = walk_depth(fs, 2)
    /\ framework = NewTestFramework(Root, OutputSubdir)
    /\ todo = << >>
    /\ registry = EmptyDict
    /\ registered = << >>
    /\ pending = << >>
    /\ report = << >>
    /\ results = NewResults
    /\ cwd = Root
    /\ now = 0
    /\ output = None

Init ==
    InitWith(Trees(SuiteNames, CaseNames, {Absent, Valid(RunConf)},
                   {Absent},
                   {Absent, Valid(CaseConf)},
                   MaxSuites, MaxCases),
             {NoArgs})

Spec == Init /\ [][Next]_vars

\* main() is one sequential process: as long as a step is possible (the walk,
\* the loops and the runner have something left to do, and every child exits),
\* one is taken.
Fairness == WF_vars(Next)

SpecLive == Init /\ [][Next]_vars /\ Fairness

\* Runs of one suite with one case, over commands, variable scopes and command
\* lines that exercise the substitution.
ArgPool ==
    { <<"lit">>, <<"$", "x">>, <<"$", "password">>, <<"$", "token">>, <<"$", "nope">> }

RECURSIVE join_args(_)
join_args(args) ==
    IF Len(args) = 1 THEN args[1] ELSE args[1] \o <<" ">> \o join_args(Tail(args))

Commands(n) == { join_args(args) : args \in UNION { [1..k -> ArgPool] : k \in 1..n } }

SuiteVarPool ==
    { [x |-> <<"sx">>],
      [x |-> <<"$", "username">>, password |-> <<"spw">>, token |-> <<"stk">>],
      [x |-> <<"$", "password">>],
      [password |-> <<"$", "username">>] }

RunConfPool ==
    { [username |-> <<"u">>, password |-> <<"pw">>, token |-> <<"tk">>],
      [username |-> <<"u">>, custom_variables |-> [x |-> <<"rx">>]],
      [password |-> <<"pw">>, custom_variables |-> [x |-> <<"rx">>, username |-> <<"cu">>]] }

AllArgs ==
    [ rhost |-> Some(<<"host">>), user |-> Some(<<"cli-u">>), password |-> Some(<<"cli-pw">>),
      token |-> Some(<<"cli-tk">>), secure |-> Some(<<"Always">>),
      directory |-> Some(<<"dir">>), interpreter |-> Some(<<"python3">>) ]

InitSubst ==
    InitWith(Trees({<<"a">>}, {<<"c">>},
                   {Absent} \cup {Valid(c) : c \in RunConfPool},
                   {Absent} \cup {Valid([custom_variables |-> v]) : v \in SuiteVarPool},
                   {Valid([test |-> [command |-> c]]) : c \in Commands(MaxArgs)},
                   1, 1),
             {NoArgs, AllArgs})

SpecSubst == InitSubst /\ [][Next]_vars

\* Runs of one suite with one case whose command names every well-known
\* variable, over run configurations and command lines that give each flag.
FlagNames == {"rhost", "user", "password", "token", "secure", "directory", "interpreter"}

OneFlag(flag) == [f \in FlagNames |-> IF f = flag THEN AllArgs[f] ELSE None]

WellKnownCommand ==
    <<"$", "target_system", " ", "$", "username", " ", "$", "password", " ", "$", "token", " ",
      "$", "https", " ", "$", "interpreter", " ", "$", "output_subdir">>

FullRunConf ==
    [ target_system |-> <<"conf-host">>, username |-> <<"conf-u">>, password |-> <<"conf-pw">>,
      token |-> <<"conf-tk">>, https |-> <<"Never">>, interpreter |-> <<"python">> ]

CustomRunConf ==
    [ username |-> <<"conf-u">>,
      custom_variables |-> [target_system |-> <<"custom-host">>,
                            output_subdir |-> <<"custom-out">>] ]

InitCli ==
    InitWith(Trees({<<"a">>}, {<<"c">>},
                   {Absent, Invalid, Valid(FullRunConf), Valid(CustomRunConf)},
                   {Absent, Invalid, Valid([custom_variables |-> [username |-> <<"su">>]])},
                   {Absent, Invalid, Valid([test |-> [command |-> WellKnownCommand]])},
                   1, 1),
             {NoArgs, AllArgs} \cup {OneFlag(f) : f \in FlagNames})

SpecCli == InitCli /\ [][Next]_vars

\* Runs over trees with directories below the case level and with symbolic
\* links among the suite and case directories.
RECURSIVE Below(_)
Below(n) ==
    IF n = 0 THEN { << >> }
    ELSE { << >> } \cup { << Dir(<<"d">>, CaseConfigFilename, Absent, sub) >> : sub \in Below(n - 1) }

CaseShapes(name) ==
    { Dir(name, CaseConfigFilename, file, sub)
        : file \in {Absent, Valid(CaseConf)}, sub \in Below(MaxDepth - 2) }
    \cup { Link(Dir(name, CaseConfigFilename, Valid(CaseConf), << >>)) }

WalkCaseDirs ==
    UNION { { q \in [DOMAIN names -> UNION { CaseShapes(n) : n \in CaseNames }]
                : \A i \in DOMAIN names : q[i].name = names[i] }
            : names \in Arrangements(CaseNames, 2) }

SuiteShapes(name) ==
    { Dir(name, SuiteConfigFilename, Absent, cases) : cases \in WalkCaseDirs }
    \cup { Link(Dir(name, SuiteConfigFilename, Absent, << >>)) }

WalkTrees ==
    UNION { { Dir(<< >>, FrameworkConfigFilename, Absent, q)
                : q \in { r \in [DOMAIN names -> UNION { SuiteShapes(n) : n \in {<<"a">>, <<"b">>} }]
                            : /\ \A i \in DOMAIN names : r[i].name = names[i]
                              /\ SumLen([i \in DOMAIN names |-> r[i].dirs]) <= 2 } }
            : names \in Arrangements({<<"a">>, <<"b">>}, 2) }

InitWalk == InitWith(WalkTrees, {NoArgs})

SpecWalk == InitWalk /\ [][Next]_vars

-----------------------------------------------------------------------------
(* Vocabulary of the properties *)

\* the (suite, case) positions of the entities built so far
Positions ==
    UNION { { <<si, ci>> : ci \in DOMAIN framework.suite_list[si].test_list }
            : si \in DOMAIN framework.suite_list }

case_at(p) == framework.suite_list[p[1]].test_list[p[2]]

suite_at(p) == framework.suite_list[p[1]]

Configured(p) == case_at(p).config_file # None

\* the runner's entries for the case at p, and those that came with a record
RunsOf(p) == { k \in DOMAIN report : report[k].suite = p[1] /\ report[k].case = p[2] }

RecordsOf(p) == { k \in RunsOf(p) : report[k].recorded # "none" }

RegistrationsOf(p) ==
    { k \in DOMAIN registered : registered[k].suite = p[1] /\ registered[k].case = p[2] }

Recorded(where) == { k \in DOMAIN report : report[k].recorded = where }

\* every record of the two collections was appended by exactly one unit run
RecordsAccounted ==
    /\ Len(results.results_pass) = Cardinality(Recorded("pass"))
    /\ Len(results.results_fail) = Cardinality(Recorded("fail"))

-----------------------------------------------------------------------------
(* Claims *)

\* C1: every unit run by run_test appends exactly one record, to the pass
\* collection if the case's return code is 0 and to the fail collection
\* otherwise, whatever results.json held.
C1_OneRecordPerRun ==
    /\ RecordsAccounted
    /\ \A k \in DOMAIN report :
         report[k].recorded =
            IF case_at(<<report[k].suite, report[k].case>>).return_code = 0
            THEN "pass" ELSE "fail"

\* C2: when the run is over, every discovered case that has a configuration
\* file has exactly one record in the two collections together.
C2_CompleteReport ==
    pc = "done" =>
        /\ RecordsAccounted
        /\ \A p \in Positions : Configured(p) => Cardinality(RecordsOf(p)) = 1

\* C3: registering a unit never replaces one registered before: every
\* registered (suite, case) stays in the registry, and is run by the runner.
C3_NoUnitReplaced ==
    /\ \A k \in DOMAIN registered :
         /\ registered[k].name \in DOMAIN registry
         /\ registry[registered[k].name] =
               [suite |-> registered[k].suite, case |-> registered[k].case]
    /\ pc = "done" =>
         \A k \in DOMAIN registered :
            RunsOf(<<registered[k].suite, registered[k].case>>) # {}

\* C4: a case directory without test_conf.json gets a TestCase entity in its
\* suite, and that entity is never registered, never run and never the origin of
\* a record of either collection.
Unconfigured(p) == CaseConfigFilename \notin node_at(fs, case_at(p).path).files

C4_UnconfiguredNeverRuns ==
    /\ RecordsAccounted
    /\ pc \notin {"walk", "exit"} =>
         \A si \in DOMAIN fs.dirs : \A ci \in DOMAIN fs.dirs[si].dirs :
            /\ <<si, ci>> \in Positions
            /\ case_at(<<si, ci>>).name = fs.dirs[si].dirs[ci].name
    /\ \A p \in Positions :
         Unconfigured(p) =>
            /\ RegistrationsOf(p) = {}
            /\ \A name \in DOMAIN registry :
                  registry[name] # [suite |-> p[1], case |-> p[2]]
            /\ RunsOf(p) = {}
            /\ case_at(p).return_code = 1 /\ case_at(p).timestamp = None

C4_Witness ==
    /\ pc = "done"
    /\ \E p \in Positions : Unconfigured(p)
    /\ \E q \in Positions : RecordsOf(q) # {}

\* C5: units are run in the order in which they were registered, so the report
\* (and with it the records) follows the registration order.
RegistrationIndex(k) ==
    CHOOSE r \in DOMAIN registered :
        registered[r].suite = report[k].suite /\ registered[r].case = report[k].case

C5_RegistrationOrder ==
    \A k, l \in DOMAIN report : k < l => RegistrationIndex(k) < RegistrationIndex(l)

-----------------------------------------------------------------------------
(* Vocabulary of the substitution properties *)

\* the configured command of the case at p, split as set_config_data splits it
ConfiguredArgs(p) == split(node_at(fs, case_at(p).path).conf.data["test"]["command"])

\* the case at p went through the two substitution passes
Substituted(p) == RegistrationsOf(p) # {}

IsToken(arg) == startswith(arg, "$")

SuiteScope(p) == suite_at(p).custom_vars

RunScope == framework.config_vars

\* what the two passes give for the case at p when its command is `args` and
\* the scopes are `suite_vars` and `run_vars`
Resolve(p, args, suite_vars, run_vars) ==
    LET fw == [framework EXCEPT
                  !.config_vars = run_vars,
                  !.suite_list[p[1]].custom_vars = suite_vars,
                  !.suite_list[p[1]].test_list[p[2]].command_args = Some(args),
                  !.suite_list[p[1]].test_list[p[2]].command_args_printable = Some(args)]
    IN  register_case(fw, p[1], p[2])

\* a scope with its sensitive variables bound to v instead
Rebound(scope, v) == [k \in DOMAIN scope |-> IF k \in sensitive_args THEN v ELSE scope[k]]

SecretValues == { <<"other">>, <<"$", "username">> }

-----------------------------------------------------------------------------

\* C6: a token whose name is defined at suite scope and at run scope ends as
\* the suite-scope value in the executable list, whatever that value is.
C6_SuiteScopeWins ==
    \A p \in Positions :
        Substituted(p) =>
            \A i \in DOMAIN ConfiguredArgs(p) :
                LET arg == ConfiguredArgs(p)[i]
                IN  (IsToken(arg) /\ in_dict(Tail(arg), SuiteScope(p))
                                  /\ in_dict(Tail(arg), RunScope))
                    => case_at(p).command_args[1][i] = lookup(SuiteScope(p), Tail(arg))

\* C8: wherever $password or $token is resolved, at suite or at run scope, the
\* printable list holds the mask; and the printable list is the same whatever
\* values password and token are bound to.
C8_SensitiveMasked ==
    \A p \in Positions :
        Substituted(p) =>
            /\ \A i \in DOMAIN ConfiguredArgs(p) :
                  LET arg == ConfiguredArgs(p)[i]
                  IN  (/\ IsToken(arg) /\ Len(arg) = 2 /\ arg[2] \in sensitive_args
                       /\ (in_dict(Tail(arg), SuiteScope(p)) \/ in_dict(Tail(arg), RunScope)))
                      => case_at(p).command_args_printable[1][i] = Mask
            /\ \A v, w \in SecretValues :
                  Resolve(p, ConfiguredArgs(p), Rebound(SuiteScope(p), v), Rebound(RunScope, w))
                      .command_args_printable = case_at(p).command_args_printable

C8_Witness ==
    \E p \in Positions :
        /\ Substituted(p)
        /\ \E i \in DOMAIN ConfiguredArgs(p) :
              /\ ConfiguredArgs(p)[i] = <<"$", "password">>
              /\ "password" \in DOMAIN RunScope /\ "password" \notin DOMAIN SuiteScope(p)
              /\ case_at(p).command_args[1][i] = RunScope["password"]
              /\ case_at(p).command_args_printable[1][i] = Mask
        /\ \E j \in DOMAIN ConfiguredArgs(p) :
              /\ ConfiguredArgs(p)[j] = <<"$", "token">>
              /\ case_at(p).command_args_printable[1][j] = Mask

\* C9: a value put in by the suite-level pass is not taken for a token by the
\* run-level pass: a token resolved at suite scope ends as its suite-scope
\* value in the executable list, and as that value (or the mask) in the
\* printable list.
C9_SuiteValueNotReinterpreted ==
    \A p \in Positions :
        Substituted(p) =>
            \A i \in DOMAIN ConfiguredArgs(p) :
                LET arg == ConfiguredArgs(p)[i]
                IN  (IsToken(arg) /\ in_dict(Tail(arg), SuiteScope(p)))
                    => /\ case_at(p).command_args[1][i] = lookup(SuiteScope(p), Tail(arg))
                       /\ case_at(p).command_args_printable[1][i] =
                             IF Tail(arg)[1] \in sensitive_args THEN Mask
                             ELSE lookup(SuiteScope(p), Tail(arg))

\* C10: a token defined in neither scope stays as written in both lists, the
\* other elements are what they are without it, and the case is registered and
\* run all the same.
Unresolved(p, arg) ==
    IsToken(arg) /\ ~in_dict(Tail(arg), SuiteScope(p)) /\ ~in_dict(Tail(arg), RunScope)

C10_UnresolvedLeftLiteral ==
    \A p \in Positions :
        (pc \in {"run", "done"} /\ Configured(p)) =>
            \A i \in DOMAIN ConfiguredArgs(p) :
                Unresolved(p, ConfiguredArgs(p)[i]) =>
                    LET args    == ConfiguredArgs(p)
                        without == Resolve(p, [args EXCEPT ![i] = <<"lit">>],
                                           SuiteScope(p), RunScope)
                    IN  /\ Substituted(p)
                        /\ case_at(p).command_args[1][i] = args[i]
                        /\ case_at(p).command_args_printable[1][i] = args[i]
                        /\ Len(case_at(p).command_args[1]) = Len(args)
                        /\ Len(case_at(p).command_args_printable[1]) = Len(args)
                        /\ \A j \in DOMAIN args \ {i} :
                              /\ case_at(p).command_args[1][j] = without.command_args[1][j]
                              /\ case_at(p).command_args_printable[1][j] =
                                    without.command_args_printable[1][j]
                        /\ pc = "done" => RunsOf(p) # {}

C10_Witness ==
    \E p \in Positions :
        /\ pc = "done" /\ Configured(p)
        /\ ConfiguredArgs(p) = << <<"$", "nope">>, <<"$", "x">> >>
        /\ "x" \in DOMAIN SuiteScope(p)
        /\ case_at(p).command_args[1] = << <<"$", "nope">>, SuiteScope(p)["x"] >>
        /\ \E k \in RunsOf(p) : report[k].invoked

-----------------------------------------------------------------------------

\* the command-line flag behind each well-known run-level variable
FlagOf ==
    [ target_system |-> cmd_args.rhost, username |-> cmd_args.user,
      password |-> cmd_args.password, token |-> cmd_args.token, https |-> cmd_args.secure,
      interpreter |-> cmd_args.interpreter, output_subdir |-> cmd_args.directory ]

\* C7: a well-known variable whose flag is given has the command-line value at
\* run scope in every substitution, so a token only the run scope resolves ends
\* as the command-line value; override_config_data runs when the walk has
\* loaded every configuration file and before the first substitution; and the
\* run's configuration, once set, is not set again.
C7_CommandLineWins ==
    [][ /\ (registered' # registered) =>
              /\ pc = "register" /\ walk = << >>
              /\ framework'.config_vars = framework.config_vars
              /\ \A key \in DOMAIN FlagOf :
                    FlagOf[key] # None =>
                       /\ key \in DOMAIN RunScope /\ RunScope[key] = FlagOf[key][1]
                       /\ LET new == registered'[Len(registered')]
                              p   == <<new.suite, new.case>>
                          IN  \A i \in DOMAIN ConfiguredArgs(p) :
                                 (ConfiguredArgs(p)[i] = <<"$", key>>
                                    /\ key \notin DOMAIN SuiteScope(p))
                                 => framework'.suite_list[p[1]].test_list[p[2]].command_args[1][i]
                                       = FlagOf[key][1]
        /\ (pc = "walk" /\ pc' = "register") =>
              /\ walk = << >> /\ registered = << >>
              /\ \A key \in DOMAIN FlagOf :
                    FlagOf[key] # None => framework'.config_vars[key] = FlagOf[key][1]
        /\ (framework.config_dict # None) => framework'.config_dict = framework.config_dict
      ]_vars

C7_Witness ==
    \E p \in Positions :
        /\ Substituted(p)
        /\ cmd_args.user # None
        /\ framework.config_dict # None
        /\ "username" \in DOMAIN framework.config_dict[1]
        /\ framework.config_dict[1]["username"] # cmd_args.user[1]
        /\ "username" \notin DOMAIN SuiteScope(p)
        /\ ConfiguredArgs(p)[2] = <<"$", "username">>
        /\ case_at(p).command_args[1][2] = cmd_args.user[1]

-----------------------------------------------------------------------------

\* C11: only an invalid run-level configuration file ends the process: an
\* invalid suite-level or case-level file leaves its node without
\* configuration and the walk goes on.
C11_OnlyRunLevelExits ==
    pc = "exit" => Head(walk).depth = 0

-----------------------------------------------------------------------------
(* Vocabulary of the execution properties *)

\* the unit of report entry k found its output directory already there
OutputExists(k) == report[k].env.chdir /\ ~report[k].env.mkdir

ran_case(k) == case_at(<<report[k].suite, report[k].case>>)

\* the runner takes the units of the class one after the other, each once
RunnerProceeds ==
    /\ pc \in {"run", "done"} =>
          LET units == makeSuite(registry)
          IN  /\ Len(report) <= Len(units)
              /\ \A k \in DOMAIN report : report[k].name = units[k]
              /\ pending = SubSeq(units, Len(report) + 1, Len(units))
    /\ pc = "done" => Len(report) = Cardinality(DOMAIN registry)

\* C12: a case whose output directory already exists is not executed: no child
\* is invoked, its return code stays the initial 1, it has no structured
\* outcome, the runner reports the unit as not passed and goes on with the
\* next unit.
C12_OutputExistsSkipsCase ==
    /\ \A k \in DOMAIN report :
          OutputExists(k) =>
             /\ ~report[k].invoked
             /\ ran_case(k).return_code = 1
             /\ ran_case(k).results = None
             /\ report[k].outcome \in {"failure", "error"}
    /\ RunnerProceeds

C12_Witness ==
    /\ pc = "done" /\ Len(report) = 2
    /\ OutputExists(1)
    /\ report[2].invoked /\ report[2].outcome = "ok"

\* C13: whenever a unit has completed, the working directory is the run's
\* root again (provided the root can still be entered), whether the unit passed
\* or failed, whether its command could be started, results.json read, or its
\* output directory created.
C13_WorkingDirectoryRestored ==
    (report # << >> /\ pc = "run" /\ \A k \in DOMAIN report : report[k].env.chdir_back)
        => cwd = framework.path

\* C14: when the child of a configured case cannot be started, the error stays
\* inside TestCase.run: the case ends with a non-zero return code and no
\* structured outcome, one synthesized record goes to the fail collection, the
\* unit is reported as failed, and the runner goes on with the next unit.
SpawnFailed(k) ==
    /\ report[k].env.chdir /\ report[k].env.mkdir /\ report[k].env.open
    /\ report[k].env.spawn = "OSError"

C14_SpawnFailureRecorded ==
    /\ \A k \in DOMAIN report :
          SpawnFailed(k) =>
             /\ ~report[k].invoked
             /\ ran_case(k).return_code # 0
             /\ ran_case(k).results = None
             /\ report[k].outcome = "failure"
             /\ report[k].recorded = "fail"
             /\ \E r \in DOMAIN results.results_fail :
                   /\ results.results_fail[r].ToolName =
                         [suite |-> suite_at(<<report[k].suite, report[k].case>>).name,
                          case |-> ran_case(k).name]
                   /\ results.results_fail[r].Timestamp = report[k].at
    /\ RecordsAccounted
    /\ RunnerProceeds

C14_Witness ==
    /\ pc = "done" /\ Len(report) = 2
    /\ SpawnFailed(1)
    /\ Len(results.results_fail) = 1
    /\ report[2].invoked /\ report[2].recorded = "pass"

-----------------------------------------------------------------------------

yielded_at(entries, d) == Cardinality({ k \in DOMAIN entries : entries[k].depth = d })

\* walk_depth never yields an entry deeper than max_depth
WalkBounded ==
    \A m \in 0..MaxDepth :
        LET entries == walk_depth(fs, m)
        IN  \A k \in DOMAIN entries : entries[k].depth <= m

\* C15: walk_depth never yields an entry deeper than max_depth, and once the
\* walk to depth 2 is over there are as many TestCase entities as depth-2
\* directories the walker yielded.
C15_WalkBoundedAndCasesCounted ==
    /\ WalkBounded
    /\ pc \notin {"walk", "exit"} =>
          Cardinality(Positions) = yielded_at(walk_depth(fs, 2), 2)

\* C16: in every substitution the run-level scope holds the variable
\* output_subdir, with or without framework_conf.json in the root directory.
C16_OutputSubdirInRunScope ==
    \A p \in Positions : Substituted(p) => "output_subdir" \in DOMAIN RunScope

\* the record the unit of report entry e appended
record_of(e) ==
    LET c == case_at(<<e.suite, e.case>>)
    IN  IF c.results # None THEN c.results[1]
        ELSE create_test_results(suite_at(<<e.suite, e.case>>).name, c.name, c.timestamp,
                                 c.command_args_printable, c.return_code)

\* the records appended to one collection, in the order of the units' runs
Appended(where) ==
    LET runs == SelectSeq(report, LAMBDA e : e.recorded = where)
    IN  [k \in DOMAIN runs |-> record_of(runs[k])]

\* C17: each collection holds its records in the order in which they were
\* appended; write_results emits both documents, each to its file or else to
\* standard output, each with every record of its collection in that order,
\* also when the reports directory cannot be created.
C17_ResultsEmittedInOrder ==
    /\ results.results_pass = Appended("pass")
    /\ results.results_fail = Appended("fail")
    /\ pc = "done" =>
          /\ output # None
          /\ output[1].dir \in {"reports", "cwd"}
          /\ output[1].pass.to \in {"file", "stdout"}
          /\ output[1].fail.to \in {"file", "stdout"}
          /\ output[1].pass.doc = Appended("pass")
          /\ output[1].fail.doc = Appended("fail")

C17_Witness ==
    /\ pc = "done"
    /\ output[1].fail.to = "stdout"
    /\ Len(output[1].fail.doc) = 2
    /\ output[1].fail.doc[1] # output[1].fail.doc[2]
    /\ output[1].fail.doc[1].ToolName.case = ran_case(1).name

\* the record in the collections that the unit of report entry k appended
record_at(k) ==
    LET nth == Cardinality({ l \in 1..k : report[l].recorded = report[k].recorded })
    IN  IF report[k].recorded = "pass" THEN results.results_pass[nth]
        ELSE results.results_fail[nth]

Synthesized(k) == report[k].recorded # "none" /\ ran_case(k).results = None

NoTokens(args) == \A i \in DOMAIN args : ~IsToken(args[i])

\* C18: the record synthesized for a case without structured outcome counts
\* pass = 1, fail = 0 under the case's name if the return code is 0 and
\* pass = 0, fail = 1 otherwise, and carries the case's printable argument
\* list, which is the split configured command when that has no $ tokens.
C18_SynthesizedRecord ==
    \A k \in DOMAIN report :
        Synthesized(k) =>
            LET c  == ran_case(k)
                p  == <<report[k].suite, report[k].case>>
                r  == record_at(k)
                tr == r.TestResults
            IN  /\ DOMAIN tr = {c.name}
                /\ tr[c.name].pass = (IF c.return_code = 0 THEN 1 ELSE 0)
                /\ tr[c.name].fail = (IF c.return_code = 0 THEN 0 ELSE 1)
                /\ tr[c.name].pass + tr[c.name].fail = 1
                /\ r.CommandLineArgs = c.command_args_printable
                /\ NoTokens(ConfiguredArgs(p)) => r.CommandLineArgs = Some(ConfiguredArgs(p))

C18_Witness ==
    /\ Len(report) = 1 /\ Synthesized(1)
    /\ ran_case(1).return_code = 2
    /\ ConfiguredArgs(<<1, 1>>) = << <<"lit">>, <<"lit">> >>
    /\ results.results_fail[1].CommandLineArgs = Some(<< <<"lit">>, <<"lit">> >>)
    /\ results.results_fail[1].TestResults[<<"c">>] = [fail |-> 1, pass |-> 0]

\* C19: the value put for $output_subdir in a case's command names the output
\* directory TestCase.run creates under the case's path, whatever flags the
\* command line gives (here: for runs with a framework_conf.json, and with no
\* custom variable of that name at either scope).
C19_OutputSubdirNamesOutputDir ==
    \A p \in Positions :
        (/\ Substituted(p)
         /\ framework.config_file # None
         /\ "custom_variables" \notin DOMAIN framework.config_dict[1]
         /\ "output_subdir" \notin DOMAIN SuiteScope(p))
        => \A i \in DOMAIN ConfiguredArgs(p) :
              ConfiguredArgs(p)[i] = <<"$", "output_subdir">>
              => join(case_at(p).path, case_at(p).command_args[1][i]) = case_at(p).output_dir

\* C20: after the two substitution passes the executable and the printable
\* list of a case are both as long as the split configured command, and at
\* every index the printable element is the executable element or the mask.
C20_PrintableMirrorsExecutable ==
    \A p \in Positions :
        Substituted(p) =>
            LET exe == case_at(p).command_args[1]
                prt == case_at(p).command_args_printable[1]
            IN  /\ Len(exe) = Len(ConfiguredArgs(p))
                /\ Len(prt) = Len(ConfiguredArgs(p))
                /\ \A i \in DOMAIN ConfiguredArgs(p) : prt[i] = exe[i] \/ prt[i] = Mask

C20_Witness ==
    \E p \in Positions :
        /\ Substituted(p)
        /\ ConfiguredArgs(p) = << <<"$", "x">>, <<"$", "password">> >>
        /\ case_at(p).command_args[1] = << <<"sx">>, <<"cli-pw">> >>
        /\ case_at(p).command_args_printable[1] = << <<"sx">>, Mask >>

\* the run() of report entry k returned before reaching the child
ReturnedEarly(k) == ~report[k].env.chdir \/ ~report[k].env.mkdir \/ ~report[k].env.open

\* C21: a record goes to the pass collection only for a case whose child was
\* invoked in this run and exited with code 0; a case whose run returned
\* early or whose child could not be started keeps return code 1 and has no
\* record in the pass collection.
C21_PassOnlyAfterExitZero ==
    /\ Len(results.results_pass) = Cardinality(Recorded("pass"))
    /\ \A k \in DOMAIN report :
          /\ report[k].recorded = "pass" =>
                /\ report[k].invoked
                /\ report[k].env.spawn = "ok" /\ report[k].env.rc = 0
                /\ ran_case(k).return_code = 0
          /\ (ReturnedEarly(k) \/ SpawnFailed(k)) =>
                /\ ran_case(k).return_code = 1
                /\ report[k].recorded # "pass"
    /\ \A p \in Positions : RunsOf(p) = {} => case_at(p).return_code = 1

C21_Witness ==
    /\ Len(report) = 2
    /\ SpawnFailed(1) /\ report[1].recorded = "fail"
    /\ report[2].invoked /\ report[2].recorded = "pass"
    /\ Len(results.results_pass) = 1

-----------------------------------------------------------------------------

\* the run reaches its end
Terminates == <>(pc = "done")

\* no case is run twice, and at the end every registered unit has been run
EachUnitOnce ==
    [](/\ \A p \in Positions : Cardinality(RunsOf(p)) <= 1
       /\ pc = "done" =>
             \A k \in DOMAIN registered :
                Cardinality(RunsOf(<<registered[k].suite, registered[k].case>>)) = 1)

\* write_results is called once, when the runner has run every unit of the
\* class, and after the chdir to the root (which sets the working directory to
\* the root, or fails and leaves it where it was)
WritesOnce ==
    [][ output' # output =>
          /\ output = None /\ output' # None
          /\ pc = "run" /\ pc' = "done"
          /\ pending = << >> /\ Len(report) = Cardinality(DOMAIN registry)
          /\ (cwd' = framework.path \/ (cwd' = cwd /\ cwd # framework.path))
      ]_vars

\* C22: when every child exits and no configuration error ends the walk, the
\* run terminates; every registered unit is run exactly once; write_results is
\* called exactly once, after all units and after the return to the root.
C22_RunTerminates ==
    /\ Terminates
    /\ EachUnitOnce
    /\ WritesOnce

====
